---------------------------- MODULE Spec2Model ----------------------------
(***************************************************************************)
(* Model of pkg/ristretto/scalar.go: the ristretto255 Scalar type, a thin  *)
(* wrapper around filippo.io/edwards25519.Scalar.                          *)
(*                                                                         *)
(* Scaling.  The program works on 32-byte encodings and on the prime       *)
(* l = 2^252 + 27742317777372353535851937790883648493.  The model keeps    *)
(* 8-bit bytes, little-endian order, the clamping masks 248 / 63 / 64 and  *)
(* the "wide input is twice the encoding" shape, and scales the encoding   *)
(* to ScalarLen = 2 bytes and the modulus to the prime L = 2^3 + 3, which  *)
(* like l is not a power of two, lies below 2^(8*ScalarLen - 2) (so that a *)
(* clamped value is always above the order) and leaves unused top bits in  *)
(* the last byte.                                                          *)
(*                                                                         *)
(* A Scalar lives in a memory cell; pointers are cell numbers, so that two *)
(* arguments of a call may alias.  A call is one step from pc = "ready"    *)
(* to pc = "returned" (or "panicked"); the caller then drops the call      *)
(* record and is ready again.                                              *)
(***************************************************************************)
EXTENDS Integers, Sequences, FiniteSets

VARIABLES
    mem,    \* cell -> value of the Scalar stored there
    prev,   \* mem as it was on entry to the last call
    call,   \* the last call: operation, arguments, results
    pc      \* "ready" | "returned" | "panicked"

vars == <<mem, prev, call, pc>>

(***************************** scaled constants ****************************)
\* len(x) != 32 in the source, scaled to 2 bytes
ScalarLen == 2
\* the 64-byte wide input: twice the encoding
WideLen == 2 * ScalarLen
\* l = 2^252 + 27742317777372353535851937790883648493, scaled
L == 2^3 + 3

(********************************* bounds **********************************)
\* number of Scalar objects the caller holds
NumCells == 2
\* longest byte slice handed to a call with a wrong length
MaxBufLen == 5

Cells == 1..NumCells
Nil == 0
Byte == 0..255

(****************************** byte helpers *******************************)
RECURSIVE BitAndN(_, _, _)
BitAndN(a, b, n) ==
    IF n = 0 THEN 0
    ELSE IF (a % 2 = 1) /\ (b % 2 = 1)
         THEN 1 + 2 * BitAndN(a \div 2, b \div 2, n - 1)
         ELSE 2 * BitAndN(a \div 2, b \div 2, n - 1)

RECURSIVE BitOrN(_, _, _)
BitOrN(a, b, n) ==
    IF n = 0 THEN 0
    ELSE IF (a % 2 = 1) \/ (b % 2 = 1)
         THEN 1 + 2 * BitOrN(a \div 2, b \div 2, n - 1)
         ELSE 2 * BitOrN(a \div 2, b \div 2, n - 1)

\* the Go operators & and | on bytes
BitAnd(a, b) == BitAndN(a, b, 8)
BitOr(a, b) == BitOrN(a, b, 8)

\* the mathematical value of a byte string read in little-endian order
RECURSIVE LEValue(_)
LEValue(x) == IF x = <<>> THEN 0 ELSE Head(x) + 256 * LEValue(Tail(x))

\* n zero bytes: make([]byte, n) / var b [n]byte
Zeros(n) == [i \in 1..n |-> 0]

(************** the backend: filippo.io/edwards25519.Scalar ***************)
\* edwards25519.Scalar.Add
edAdd(x, y) == (x + y) % L

\* edwards25519.Scalar.Subtract
edSubtract(x, y) == (x + L - y) % L

\* l - x without the reduction: l for x = 0
edNegate_noReduce(x) == L - x

\* edwards25519.Scalar.Negate
edNegate(x) == (L - x) % L

\* edwards25519.Scalar.Multiply
edMultiply(x, y) == (x * y) % L

\* x^e mod L by square and multiply
RECURSIVE edPow(_, _)
edPow(x, e) ==
    IF e = 0 THEN 1
    ELSE LET h == edPow(x, e \div 2)
             sq == edMultiply(h, h)
         IN IF e % 2 = 1 THEN edMultiply(sq, x) ELSE sq

\* the exponent off by one
edInvert_wrongExp(x) == edPow(x, L - 1)

\* edwards25519.Scalar.Invert: x^(l-2), which is 0 for x = 0
edInvert(x) == edPow(x, L - 2)

\* the canonical little-endian encoding of l - 1
scalarMinusOneBytes == [i \in 1..ScalarLen |-> ((L - 1) \div (256 ^ (i - 1))) % 256]

\* edwards25519 isReduced: compare with l - 1 from the top byte down
RECURSIVE isReducedFrom(_, _)
isReducedFrom(x, i) ==
    IF i = 0 THEN TRUE
    ELSE IF x[i] > scalarMinusOneBytes[i] THEN FALSE
    ELSE IF x[i] < scalarMinusOneBytes[i] THEN TRUE
    ELSE isReducedFrom(x, i - 1)

\* a bitmask heuristic: accept whatever fits the bits of l
isReduced_bitmask(x) ==
    IF Len(x) # ScalarLen THEN FALSE
    ELSE LEValue(x) < 2 ^ 4

isReduced(x) == IF Len(x) # ScalarLen THEN FALSE ELSE isReducedFrom(x, Len(x))

\* edwards25519.Scalar.SetCanonicalBytes on a receiver holding v
edSetCanonicalBytes(v, x) ==
    IF Len(x) # ScalarLen THEN [s |-> v, err |-> TRUE]
    ELSE IF ~isReduced(x) THEN [s |-> v, err |-> TRUE]
    ELSE [s |-> LEValue(x), err |-> FALSE]

\* reduces the low half and drops the high half
wideReduce_lowHalf(x) == LEValue(SubSeq(x, 1, ScalarLen)) % L

\* the wide reduction: the low half plus the high half times 2^(8*ScalarLen) mod l
wideReduce(x) ==
    LET lo == LEValue(SubSeq(x, 1, ScalarLen)) % L
        hi == LEValue(SubSeq(x, ScalarLen + 1, WideLen)) % L
    IN edAdd(lo, edMultiply(hi, (256 ^ ScalarLen) % L))

\* clears the receiver before looking at the length
edSetUniformBytes_clearsFirst(v, x) ==
    IF Len(x) # WideLen THEN [s |-> 0, err |-> TRUE]
    ELSE [s |-> wideReduce(x), err |-> FALSE]

\* edwards25519.Scalar.SetUniformBytes on a receiver holding v
edSetUniformBytes(v, x) ==
    IF Len(x) # WideLen THEN [s |-> v, err |-> TRUE]
    ELSE [s |-> wideReduce(x), err |-> FALSE]

\* writes the most significant byte first
edBytes_bigEndian(v) == [i \in 1..ScalarLen |-> (v \div (256 ^ (ScalarLen - i))) % 256]

\* edwards25519.Scalar.Bytes: the 32-byte little-endian encoding
edBytes(v) == [i \in 1..ScalarLen |-> (v \div (256 ^ (i - 1))) % 256]

\* edwards25519.Scalar.Equal
edEqual(v, u) == IF v = u THEN 1 ELSE 0

(********************* encoding/base64: StdEncoding ************************)
padChar == 61
LF == 10
CR == 13

\* "ABCDEFGHIJKLMNOPQRSTUVWXYZabcdefghijklmnopqrstuvwxyz0123456789+/"
encodeStd(v) ==
    IF v < 26 THEN 65 + v
    ELSE IF v < 52 THEN 97 + (v - 26)
    ELSE IF v < 62 THEN 48 + (v - 52)
    ELSE IF v = 62 THEN 43
    ELSE 47

\* the decode map: 0xff for a character outside the alphabet
decodeMap(c) ==
    IF c \in 65..90 THEN c - 65
    ELSE IF c \in 97..122 THEN c - 97 + 26
    ELSE IF c \in 48..57 THEN c - 48 + 52
    ELSE IF c = 43 THEN 62
    ELSE IF c = 47 THEN 63
    ELSE 255

\* base64.StdEncoding.EncodeToString: 3 bytes to 4 characters, "=" padding
RECURSIVE StdEncode(_)
StdEncode(b) ==
    IF Len(b) = 0 THEN <<>>
    ELSE IF Len(b) = 1 THEN
        LET val == b[1] * 65536
        IN <<encodeStd((val \div 262144) % 64), encodeStd((val \div 4096) % 64),
             padChar, padChar>>
    ELSE IF Len(b) = 2 THEN
        LET val == b[1] * 65536 + b[2] * 256
        IN <<encodeStd((val \div 262144) % 64), encodeStd((val \div 4096) % 64),
             encodeStd((val \div 64) % 64), padChar>>
    ELSE
        LET val == b[1] * 65536 + b[2] * 256 + b[3]
        IN <<encodeStd((val \div 262144) % 64), encodeStd((val \div 4096) % 64),
             encodeStd((val \div 64) % 64), encodeStd(val % 64)>>
           \o StdEncode(SubSeq(b, 4, Len(b)))

\* skip over newlines
RECURSIVE skipNewlines(_, _)
skipNewlines(src, si) ==
    IF si <= Len(src) /\ src[si] \in {LF, CR} THEN skipNewlines(src, si + 1) ELSE si

\* the bytes of one quantum: dlen 6-bit values give dlen - 1 bytes; the bits
\* left over in the last value are dropped (StdEncoding is not strict)
quantumBytes(dbuf) ==
    LET d == [i \in 1..4 |-> IF i <= Len(dbuf) THEN dbuf[i] ELSE 0]
        val == d[1] * 262144 + d[2] * 4096 + d[3] * 64 + d[4]
        b == <<(val \div 65536) % 256, (val \div 256) % 256, val % 256>>
    IN IF Len(dbuf) = 0 THEN <<>> ELSE SubSeq(b, 1, Len(dbuf) - 1)

\* base64 decodeQuantum: read up to 4 characters from src[si], ignoring CR and LF
RECURSIVE decodeQuantum(_, _, _)
decodeQuantum(src, si, dbuf) ==
    LET j == Len(dbuf)
    IN IF j = 4 THEN [si |-> si, b |-> quantumBytes(dbuf), err |-> FALSE]
       ELSE IF si > Len(src) THEN
            IF j = 0 THEN [si |-> si, b |-> <<>>, err |-> FALSE]
            ELSE [si |-> si, b |-> <<>>, err |-> TRUE]
       ELSE IF decodeMap(src[si]) # 255 THEN
            decodeQuantum(src, si + 1, Append(dbuf, decodeMap(src[si])))
       ELSE IF src[si] \in {LF, CR} THEN decodeQuantum(src, si + 1, dbuf)
       ELSE IF src[si] # padChar THEN [si |-> si + 1, b |-> <<>>, err |-> TRUE]
       ELSE IF j < 2 THEN [si |-> si + 1, b |-> <<>>, err |-> TRUE]
       ELSE LET s2 == IF j = 2 THEN skipNewlines(src, si + 1) ELSE si
                padOk == (j # 2) \/ (s2 <= Len(src) /\ src[s2] = padChar)
                s3 == skipNewlines(src, s2 + 1)
            IN IF ~padOk THEN [si |-> s2, b |-> <<>>, err |-> TRUE]
               ELSE IF s3 <= Len(src) THEN [si |-> s3, b |-> quantumBytes(dbuf), err |-> TRUE]
               ELSE [si |-> s3, b |-> quantumBytes(dbuf), err |-> FALSE]

RECURSIVE decodeFrom(_, _, _)
decodeFrom(src, si, acc) ==
    IF si > Len(src) THEN [b |-> acc, err |-> FALSE]
    ELSE LET q == decodeQuantum(src, si, <<>>)
         IN IF q.err THEN [b |-> acc \o q.b, err |-> TRUE]
            ELSE decodeFrom(src, q.si, acc \o q.b)

\* base64.StdEncoding.DecodeString
StdDecode(text) == decodeFrom(text, 1, <<>>)

(************************* the methods of Scalar ***************************)
\* A method is an operator on the memory m; s is the receiver's cell, x, y, z
\* are the cells of pointer arguments, b is a byte slice.  A fallible method
\* yields [m: the memory after, ret: the *Scalar returned (Nil for nil),
\* err: whether an error was returned, x: the caller's slice after the call].

\* NewScalar: &Scalar{}, the zero value
NewScalar == 0

\* *s = *x
Set(m, s, x) == [m EXCEPT ![s] = m[x]]

Add(m, s, x, y) == [m EXCEPT ![s] = edAdd(m[x], m[y])]

Subtract(m, s, x, y) == [m EXCEPT ![s] = edSubtract(m[x], m[y])]

Negate(m, s, x) == [m EXCEPT ![s] = edNegate(m[x])]

Multiply(m, s, x, y) == [m EXCEPT ![s] = edMultiply(m[x], m[y])]

\* adds z as it is after the receiver was overwritten
MultiplyAdd_noCopy(m, s, x, y, z) ==
    LET m1 == Multiply(m, s, x, y)
    IN [m1 EXCEPT ![s] = edAdd(m1[s], m1[z])]

\* zCopy is a fresh Scalar outside the caller's cells; s.Multiply(x, y) runs
\* first, then s.Add(s, zCopy)
MultiplyAdd(m, s, x, y, z) ==
    LET zCopy == m[z]
        m1 == Multiply(m, s, x, y)
    IN [m1 EXCEPT ![s] = edAdd(m1[s], zCopy)]

Invert(m, s, x) == [m EXCEPT ![s] = edInvert(m[x])]

\* s.s = edwards25519.Scalar{}
Zero(m, s) == [m EXCEPT ![s] = 0]

Equal(m, s, u) == edEqual(m[s], m[u])

Bytes(m, s) == edBytes(m[s])

SetUniformBytes(m, s, b) ==
    LET r == edSetUniformBytes(m[s], b)
        m1 == [m EXCEPT ![s] = r.s]
    IN IF r.err THEN [m |-> m1, ret |-> Nil, err |-> TRUE, x |-> b]
       ELSE [m |-> m1, ret |-> s, err |-> FALSE, x |-> b]

\* forgets wideBytes[31] |= 64
clampWide_noBit6(b) ==
    LET w0 == [i \in 1..WideLen |-> IF i <= Len(b) THEN b[i] ELSE 0]
        w1 == [w0 EXCEPT ![1] = BitAnd(@, 248)]
    IN [w1 EXCEPT ![ScalarLen] = BitAnd(@, 63)]

\* the clamped copy of x: wideBytes after lines 107-111
clampWide(b) ==
    LET w0 == [i \in 1..WideLen |-> IF i <= Len(b) THEN b[i] ELSE 0]
        w1 == [w0 EXCEPT ![1] = BitAnd(@, 248)]
        w2 == [w1 EXCEPT ![ScalarLen] = BitAnd(@, 63)]
    IN [w2 EXCEPT ![ScalarLen] = BitOr(@, 64)]

SetBytesWithClamping(m, s, b) ==
    IF Len(b) # ScalarLen THEN [m |-> m, ret |-> Nil, err |-> TRUE, x |-> b]
    ELSE [SetUniformBytes(m, s, clampWide(b)) EXCEPT !.x = b]

SetCanonicalBytes(m, s, b) ==
    LET r == edSetCanonicalBytes(m[s], b)
        m1 == [m EXCEPT ![s] = r.s]
    IN IF r.err THEN [m |-> m1, ret |-> Nil, err |-> TRUE, x |-> b]
       ELSE [m |-> m1, ret |-> s, err |-> FALSE, x |-> b]

\* Decode drops the *Scalar and returns the error
Decode(m, s, b) == [SetCanonicalBytes(m, s, b) EXCEPT !.ret = Nil]

\* drops the error instead of panicking
FromUniformBytes_noPanic(m, s, b) ==
    LET r == SetUniformBytes(m, s, b)
    IN [m |-> r.m, ret |-> s, panic |-> FALSE, x |-> r.x]

\* FromUniformBytes panics on an error of SetUniformBytes, else returns s
FromUniformBytes(m, s, b) ==
    LET r == SetUniformBytes(m, s, b)
    IN [m |-> r.m, ret |-> IF r.err THEN Nil ELSE s, panic |-> r.err, x |-> r.x]

\* sliceForAppend(in, n): head is in extended by n bytes, tail its last n
sliceForAppend(in, n) == [head |-> in \o Zeros(n), tail |-> Zeros(n)]

\* copy(out, s.s.Bytes()) writes into the tail of ret
Encode(m, s, b) ==
    LET sl == sliceForAppend(b, ScalarLen)
        src == edBytes(m[s])
        n == IF Len(src) < Len(sl.tail) THEN Len(src) ELSE Len(sl.tail)
    IN [i \in 1..Len(sl.head) |->
           IF i > Len(b) /\ i - Len(b) <= n THEN src[i - Len(b)] ELSE sl.head[i]]

MarshalText(m, s) == [text |-> StdEncode(Encode(m, s, <<>>)), err |-> FALSE]

\* hands the bytes to Decode whatever the decoder said
UnmarshalText_ignoresError(m, s, text) ==
    [Decode(m, s, StdDecode(text).b) EXCEPT !.x = text]

UnmarshalText(m, s, text) ==
    LET d == StdDecode(text)
    IN IF ~d.err THEN [Decode(m, s, d.b) EXCEPT !.x = text]
       ELSE [m |-> m, ret |-> Nil, err |-> TRUE, x |-> text]

String(m, s) == MarshalText(m, s).text

(******************************** inputs ***********************************)
\* byte values the caller's slices are built from: 0, the low byte of l-1, 0xff
SampleBytes == {0, L - 1, 255}

\* slices of the encoding's length: every slice over SampleBytes, and the
\* encodings of 1, l, l+1 and l+5
CanonBuffers ==
    [1..ScalarLen -> SampleBytes]
    \cup {[i \in 1..ScalarLen |-> IF i = 1 THEN v ELSE 0] : v \in {1, L, L + 1, L + 5}}

\* high halves of a wide input (the top byte stays below 0x80 so that the
\* value of the whole input stays below 2^31)
HiSamples == {Zeros(ScalarLen), [i \in 1..ScalarLen |-> IF i = 1 THEN 1 ELSE 0],
              [i \in 1..ScalarLen |-> IF i = ScalarLen THEN 127 ELSE 255]}

\* slices of the wide length
WideBuffers == {lo \o hi : lo \in CanonBuffers, hi \in HiSamples}

\* slices of every length up to MaxBufLen but n
WrongLen(n) == {[i \in 1..k |-> f] : k \in (0..MaxBufLen) \ {n}, f \in {1, 255}}

\* ways a text goes wrong or stays readable: cut the padding, add or insert a
\* newline, append a character, put in a character outside the alphabet, pad
\* early, and set the bits the last character leaves unused
Variants(t) ==
    IF Len(t) = 0 THEN {t}
    ELSE {t, SubSeq(t, 1, Len(t) - 1), t \o <<LF>>, <<CR>> \o t, t \o <<65>>,
          SubSeq(t, 1, 2) \o <<LF>> \o SubSeq(t, 3, Len(t)),
          [t EXCEPT ![1] = 42], [t EXCEPT ![2] = padChar],
          [t EXCEPT ![Len(t) - 1] = IF @ = padChar THEN @ ELSE encodeStd((decodeMap(@) + 1) % 64)]}

Texts ==
    {StdEncode(b) : b \in CanonBuffers}
    \cup UNION {Variants(StdEncode(b)) :
                  b \in {Zeros(ScalarLen), edBytes(L - 1), edBytes(L), <<1>>, <<1, 0, 0>>, <<>>}}

\* prefixes handed to Encode
Prefixes == {<<>>, <<7>>, <<1, 255>>}

(********************************* state ***********************************)
Mk(op, s, args, in, x, out, ret, err, val) ==
    [op |-> op, s |-> s, args |-> args, in |-> in, x |-> x, out |-> out,
     ret |-> ret, err |-> err, val |-> val]

NoCall == Mk("none", Nil, <<>>, <<>>, <<>>, <<>>, Nil, FALSE, 0)

\* every Scalar starts as NewScalar()
Init ==
    /\ mem = [c \in Cells |-> NewScalar]
    /\ prev = mem
    /\ call = NoCall
    /\ pc = "ready"

\* the call returns with memory m2 and record c
Step(m2, c) ==
    /\ pc = "ready"
    /\ mem' = m2
    /\ prev' = mem
    /\ call' = c
    /\ pc' = "returned"

Fallible(op, s, b, r) == Step(r.m, Mk(op, s, <<>>, b, r.x, <<>>, r.ret, r.err, 0))

CallNewScalar ==
    \E s \in Cells :
        Step([mem EXCEPT ![s] = NewScalar], Mk("NewScalar", s, <<>>, <<>>, <<>>, <<>>, s, FALSE, 0))

CallSet ==
    \E s, x \in Cells :
        Step(Set(mem, s, x), Mk("Set", s, <<x>>, <<>>, <<>>, <<>>, s, FALSE, 0))

CallAdd ==
    \E s, x, y \in Cells :
        Step(Add(mem, s, x, y), Mk("Add", s, <<x, y>>, <<>>, <<>>, <<>>, s, FALSE, 0))

CallSubtract ==
    \E s, x, y \in Cells :
        Step(Subtract(mem, s, x, y), Mk("Subtract", s, <<x, y>>, <<>>, <<>>, <<>>, s, FALSE, 0))

CallNegate ==
    \E s, x \in Cells :
        Step(Negate(mem, s, x), Mk("Negate", s, <<x>>, <<>>, <<>>, <<>>, s, FALSE, 0))

CallMultiply ==
    \E s, x, y \in Cells :
        Step(Multiply(mem, s, x, y), Mk("Multiply", s, <<x, y>>, <<>>, <<>>, <<>>, s, FALSE, 0))

CallMultiplyAdd ==
    \E s, x, y, z \in Cells :
        Step(MultiplyAdd(mem, s, x, y, z),
             Mk("MultiplyAdd", s, <<x, y, z>>, <<>>, <<>>, <<>>, s, FALSE, 0))

CallInvert ==
    \E s, x \in Cells :
        Step(Invert(mem, s, x), Mk("Invert", s, <<x>>, <<>>, <<>>, <<>>, s, FALSE, 0))

CallZero ==
    \E s \in Cells :
        Step(Zero(mem, s), Mk("Zero", s, <<>>, <<>>, <<>>, <<>>, s, FALSE, 0))

CallEqual ==
    \E s, u \in Cells :
        Step(mem, Mk("Equal", s, <<u>>, <<>>, <<>>, <<>>, Nil, FALSE, Equal(mem, s, u)))

CallBytes ==
    \E s \in Cells :
        Step(mem, Mk("Bytes", s, <<>>, <<>>, <<>>, Bytes(mem, s), Nil, FALSE, 0))

CallSetUniformBytes ==
    \E s \in Cells, b \in WideBuffers \cup WrongLen(WideLen) :
        Fallible("SetUniformBytes", s, b, SetUniformBytes(mem, s, b))

CallSetBytesWithClamping ==
    \E s \in Cells, b \in CanonBuffers \cup WrongLen(ScalarLen) :
        Fallible("SetBytesWithClamping", s, b, SetBytesWithClamping(mem, s, b))

CallSetCanonicalBytes ==
    \E s \in Cells, b \in CanonBuffers \cup WrongLen(ScalarLen) :
        Fallible("SetCanonicalBytes", s, b, SetCanonicalBytes(mem, s, b))

CallDecode ==
    \E s \in Cells, b \in CanonBuffers \cup WrongLen(ScalarLen) :
        Fallible("Decode", s, b, Decode(mem, s, b))

\* a panic ends the program: no state follows pc = "panicked"
CallFromUniformBytes ==
    \E s \in Cells, b \in WideBuffers \cup WrongLen(WideLen) :
        LET r == FromUniformBytes(mem, s, b)
        IN /\ pc = "ready"
           /\ mem' = r.m
           /\ prev' = mem
           /\ call' = Mk("FromUniformBytes", s, <<>>, b, r.x, <<>>, r.ret, FALSE, 0)
           /\ pc' = IF r.panic THEN "panicked" ELSE "returned"

CallEncode ==
    \E s \in Cells, b \in Prefixes :
        Step(mem, Mk("Encode", s, <<>>, b, b, Encode(mem, s, b), Nil, FALSE, 0))

CallMarshalText ==
    \E s \in Cells :
        LET r == MarshalText(mem, s)
        IN Step(mem, Mk("MarshalText", s, <<>>, <<>>, <<>>, r.text, Nil, r.err, 0))

CallUnmarshalText ==
    \E s \in Cells, t \in Texts :
        Fallible("UnmarshalText", s, t, UnmarshalText(mem, s, t))

CallString ==
    \E s \in Cells :
        Step(mem, Mk("String", s, <<>>, <<>>, <<>>, String(mem, s), Nil, FALSE, 0))

\* the caller takes the result and is ready for the next call
Return ==
    /\ pc = "returned"
    /\ pc' = "ready"
    /\ call' = NoCall
    /\ prev' = mem
    /\ UNCHANGED mem

Next ==
    \/ CallNewScalar \/ CallSet \/ CallAdd \/ CallSubtract \/ CallNegate
    \/ CallMultiply \/ CallMultiplyAdd \/ CallInvert \/ CallZero \/ CallEqual
    \/ CallBytes \/ CallSetUniformBytes \/ CallSetBytesWithClamping
    \/ CallSetCanonicalBytes \/ CallDecode \/ CallFromUniformBytes \/ CallEncode
    \/ CallMarshalText \/ CallUnmarshalText \/ CallString \/ Return

Spec == Init /\ [][Next]_vars

(******************************** claims ***********************************)
Returned(op) == pc = "returned" /\ call.op = op

\* the slice of the encoding's length that encodes v, low byte first
EncodingOf(v) == [i \in 1..ScalarLen |-> (v \div (256 ^ (i - 1))) % 256]

\* C1: SetCanonicalBytes on an input of the encoding's length succeeds if and
\* only if the input, read as a little-endian integer, is below l; for every
\* value >= l (l, l+1, any top bit set) it returns nil and an error and the
\* receiver holds the value it held before the call.
C1_CanonicalIffBelowL ==
    (Returned("SetCanonicalBytes") /\ Len(call.in) = ScalarLen) =>
        /\ (~call.err) <=> (LEValue(call.in) < L)
        /\ (~call.err) => (call.ret = call.s /\ mem[call.s] = LEValue(call.in))
        /\ (LEValue(call.in) >= L) =>
               (call.ret = Nil /\ call.err /\ mem[call.s] = prev[call.s])

\* SetCanonicalBytes was given the encoding of l on a receiver holding a
\* non-zero value, and refused it
C1_Witness ==
    /\ Returned("SetCanonicalBytes")
    /\ call.in = EncodingOf(L)
    /\ call.err
    /\ prev[call.s] # 0

\* C2: with an input of the wrong length, SetUniformBytes, SetBytesWithClamping
\* and SetCanonicalBytes return nil and an error and leave every Scalar as it
\* was before the call.
C2_WrongLengthLeavesReceiver ==
    /\ (Returned("SetUniformBytes") /\ Len(call.in) # WideLen) =>
           (call.ret = Nil /\ call.err /\ mem = prev)
    /\ (Returned("SetBytesWithClamping") /\ Len(call.in) # ScalarLen) =>
           (call.ret = Nil /\ call.err /\ mem = prev)
    /\ (Returned("SetCanonicalBytes") /\ Len(call.in) # ScalarLen) =>
           (call.ret = Nil /\ call.err /\ mem = prev)

\* SetUniformBytes was given a slice of the encoding's length (half the wide
\* length) on a receiver holding a non-zero value
C2_Witness ==
    /\ Returned("SetUniformBytes")
    /\ Len(call.in) = ScalarLen
    /\ call.err
    /\ prev[call.s] # 0

\* C3: for every slice b of the encoding's length with value below l,
\* SetCanonicalBytes(b) succeeds and Bytes() then returns exactly b; and for
\* every scalar s, SetCanonicalBytes(s.Bytes()) succeeds on any receiver and
\* gives a scalar Equal to s.
C3_RoundTrip ==
    /\ (Returned("SetCanonicalBytes") /\ Len(call.in) = ScalarLen /\ LEValue(call.in) < L) =>
           (~call.err /\ Bytes(mem, call.s) = call.in)
    /\ Returned("Bytes") =>
           \A c \in Cells :
               LET r == SetCanonicalBytes(mem, c, call.out)
               IN ~r.err /\ Equal(r.m, c, c) = 1 /\ edEqual(r.m[c], mem[call.s]) = 1

\* SetCanonicalBytes accepted the encoding of l-1 on a receiver that held
\* another value
C3_Witness ==
    /\ Returned("SetCanonicalBytes")
    /\ call.in = EncodingOf(L - 1)
    /\ ~call.err
    /\ prev[call.s] # L - 1

\* C4: for every input of the wide length, SetUniformBytes succeeds and sets
\* the receiver to the input read as an unsigned little-endian integer, reduced
\* mod l, whatever the receiver held; all zero bytes give 0, the encoding of l
\* gives 0 and the encoding of l+5 gives 5.
C4_UniformReducesModL ==
    (Returned("SetUniformBytes") /\ Len(call.in) = WideLen) =>
        /\ ~call.err
        /\ call.ret = call.s
        /\ mem = [prev EXCEPT ![call.s] = LEValue(call.in) % L]
        /\ (call.in = Zeros(WideLen)) => mem[call.s] = 0
        /\ (call.in = EncodingOf(L) \o Zeros(ScalarLen)) => mem[call.s] = 0
        /\ (call.in = EncodingOf(L + 5) \o Zeros(ScalarLen)) => mem[call.s] = 5

\* SetUniformBytes was given an input whose high half is not zero, on a
\* receiver that held a value other than the result
C4_Witness ==
    /\ Returned("SetUniformBytes")
    /\ Len(call.in) = WideLen
    /\ LEValue(SubSeq(call.in, ScalarLen + 1, WideLen)) > 1
    /\ mem[call.s] # prev[call.s]
    /\ mem[call.s] # LEValue(SubSeq(call.in, 1, ScalarLen)) % L

\* x with the low 3 bits of byte 0 cleared, the top 2 bits of the last byte
\* cleared and bit 6 of the last byte set
ClampOf(b) == [b EXCEPT ![1] = @ - (@ % 8), ![ScalarLen] = (@ % 64) + 64]

\* C5: for every input x of the encoding's length, SetBytesWithClamping
\* succeeds and sets the receiver to clamp(x) mod l; the result is that of
\* SetUniformBytes on clamp(x) zero-extended to the wide length, and the
\* caller's slice x is not modified.
C5_ClampThenReduce ==
    (Returned("SetBytesWithClamping") /\ Len(call.in) = ScalarLen) =>
        /\ ~call.err
        /\ call.ret = call.s
        /\ mem = [prev EXCEPT ![call.s] = LEValue(ClampOf(call.in)) % L]
        /\ mem = SetUniformBytes(prev, call.s, ClampOf(call.in) \o Zeros(ScalarLen)).m
        /\ call.x = call.in

\* SetBytesWithClamping was given a slice with all the clamped bits set
C5_Witness ==
    /\ Returned("SetBytesWithClamping")
    /\ call.in = [i \in 1..ScalarLen |-> 255]
    /\ ~call.err
    /\ mem[call.s] # prev[call.s]

\* C6: MultiplyAdd(x, y, z) sets the receiver to (x*y + z) mod l of the values
\* held on entry, for every aliasing of the receiver with x, y, z; it is
\* Multiply(x, y) then Add(., z) into a fresh scalar copied to the receiver,
\* and every other Scalar is left unchanged.
C6_MultiplyAddAliasing ==
    Returned("MultiplyAdd") =>
        LET x == call.args[1]
            y == call.args[2]
            z == call.args[3]
            fresh == edAdd(edMultiply(prev[x], prev[y]), prev[z])
        IN /\ mem[call.s] = (prev[x] * prev[y] + prev[z]) % L
           /\ mem = [prev EXCEPT ![call.s] = fresh]
           /\ \A c \in Cells \ {call.s} : mem[c] = prev[c]

\* s.MultiplyAdd(s, s, s) on a value whose square is not itself
C6_Witness ==
    /\ Returned("MultiplyAdd")
    /\ call.args = <<call.s, call.s, call.s>>
    /\ prev[call.s] \notin {0, 1}

\* C7: in every state reached from zero-value Scalars by the public
\* operations, every Scalar's value is in [0, l) and Bytes() is the slice of
\* the encoding's length whose little-endian value is that value, which
\* SetCanonicalBytes accepts.
C7_AlwaysCanonical ==
    \A c \in Cells :
        /\ mem[c] \in 0..(L - 1)
        /\ Len(Bytes(mem, c)) = ScalarLen
        /\ LEValue(Bytes(mem, c)) = mem[c]
        /\ \A i \in 1..ScalarLen : Bytes(mem, c)[i] \in Byte
        /\ ~SetCanonicalBytes(mem, c, Bytes(mem, c)).err

\* a Subtract that wrapped around: x < y on entry
C7_Witness ==
    /\ Returned("Subtract")
    /\ prev[call.args[1]] < prev[call.args[2]]
    /\ mem[call.s] > prev[call.args[1]]

\* C8: Add(x, y) Equal Add(y, x); Add(x, zero) Equal x; and for x # 0,
\* Multiply(x, Invert(x)) Equal the scalar one.
C8_FieldAxioms ==
    /\ Returned("Add") =>
           LET x == call.args[1]
               y == call.args[2]
           IN /\ edEqual(mem[call.s], Add(prev, call.s, y, x)[call.s]) = 1
              /\ (prev[y] = Zero(prev, y)[y]) => edEqual(mem[call.s], prev[x]) = 1
    /\ (Returned("Invert") /\ prev[call.args[1]] # 0) =>
           LET x == prev[call.args[1]]
               one == SetCanonicalBytes(prev, call.s, EncodingOf(1)).m[call.s]
           IN edEqual(edMultiply(x, mem[call.s]), one) = 1

\* Invert of a value that is not its own inverse
C8_Witness ==
    /\ Returned("Invert")
    /\ prev[call.args[1]] \notin {0, 1, L - 1}
    /\ mem[call.s] # prev[call.args[1]]

C10_DeprecatedAliases ==
    /\ Returned("Decode") =>
           LET r == SetCanonicalBytes(prev, call.s, call.in)
           IN call.err = r.err /\ mem = r.m
    /\ Returned("Encode") =>
           /\ call.out = call.in \o Bytes(prev, call.s)
           /\ call.x = call.in
           /\ mem = prev
    /\ (call.op = "FromUniformBytes") =>
           LET r == SetUniformBytes(prev, call.s, call.in)
           IN /\ (pc = "panicked") <=> r.err
              /\ (pc = "returned") <=> ~r.err
              /\ mem = r.m
              /\ (pc = "panicked") => mem = prev
              /\ (Len(call.in) = WideLen) => (pc = "returned" /\ call.ret = call.s)

\* FromUniformBytes panicked on a slice of the wrong length, on a receiver
\* holding a non-zero value
C10_Witness ==
    /\ pc = "panicked"
    /\ call.op = "FromUniformBytes"
    /\ Len(call.in) # WideLen
    /\ prev[call.s] # 0

=============================================================================
